---- MODULE Spec2Model ----
(***************************************************************************)
(* A model of bundleparty.py: the interactive menu loop (main) and the     *)
(* log scanner (run_analysis).  Text is modelled as sequences of one-      *)
(* character strings, so that substring containment, lower-casing, suffix  *)
(* tests and regular-expression search are computed, not assumed.          *)
(***************************************************************************)
EXTENDS Naturals, Sequences, FiniteSets

VARIABLES
  pc,                \* control position in main / run_analysis
  choices,           \* menu inputs consumed so far (capped by MaxChoices)
  queue,             \* run_analysis calls still to make for the current menu choice
  args,              \* arguments of the current run_analysis call
  search_terms,      \* local search_terms (re-bound at line 168 in literal mode)
  ignore_terms,      \* local ignore_terms (re-bound at line 169 in literal mode)
  compiled_patterns, \* local compiled_patterns
  found_matches,     \* local found_matches
  dir_exists,        \* filesystem: does ./analysis_results exist
  dest,              \* filesystem: the result files, by name
  out_open,          \* is out_file (the destination handle) open
  walk_i,            \* os.walk position: index of the current (dirpath, filenames)
  file_j,            \* position in the current filenames list
  lines_read,        \* lines read so far from the open source file
  line,              \* the line last read from the source file
  written,           \* history: records the current run has written to out_file
  opened,            \* history: source paths the current run has tried to open
  event,             \* history: what the last step reported
  dest_failed        \* history: a destination open/write has failed in this run

vars == << pc, choices, queue, args, search_terms, ignore_terms, compiled_patterns,
           found_matches, dir_exists, dest, out_open, walk_i, file_j, lines_read,
           line, written, opened, event, dest_failed >>

(***************************************************************************)
(* Bounds of the model.                                                    *)
(***************************************************************************)
MaxTerms == 2       \* longest search-term list drawn for a line evaluation
MaxIgnores == 1     \* longest ignore-term list drawn for a line evaluation
MaxLineLen == 2     \* longest line body (before its terminator) drawn
MaxFileLines == 1   \* lines a source file yields before it ends
MaxChoices == 1     \* menu inputs entered before the model stops

(***************************************************************************)
(* Text.                                                                   *)
(***************************************************************************)
NL == "\n"

\* str.lower() on the characters of the model alphabet.
Lower(c) == IF c = "A" THEN "a" ELSE IF c = "B" THEN "b" ELSE c

LowerStr(s) == [i \in 1..Len(s) |-> Lower(s[i])]

\* Python's `sub in s` on strings.
Contains(sub, s) ==
  \E i \in 0..Len(s) : i + Len(sub) <= Len(s) /\ SubSeq(s, i + 1, i + Len(sub)) = sub

\* str.endswith(suf)
EndsWith(s, suf) ==
  Len(suf) <= Len(s) /\ SubSeq(s, Len(s) - Len(suf) + 1, Len(s)) = suf

OUTPUT_DIR_NAME ==
  << "a","n","a","l","y","s","i","s","_","r","e","s","u","l","t","s" >>

\* The suffixes of filename.endswith((".log", ".json")).
Extensions == { << ".","l","o","g" >>, << ".","j","s","o","n" >> }

(***************************************************************************)
(* Regular expressions.  The model's pattern language is the part of       *)
(* Python's re syntax written with letters, "." and "(": a letter is a     *)
(* literal, "." is any character but a line terminator, and a "(" is never *)
(* closed, so re.compile raises re.error on every pattern that holds one.  *)
(***************************************************************************)
\* Does re.compile(pattern, re.IGNORECASE) return (TRUE) or raise re.error (FALSE).
CompileOk(pattern) == \A i \in 1..Len(pattern) : pattern[i] # "("

\* One pattern atom against one character, under re.IGNORECASE.
AtomMatches(a, c) == IF a = "." THEN c # NL ELSE Lower(a) = Lower(c)

\* pattern.search(line): a match starting anywhere in the line.
PatternSearch(pattern, s) ==
  \E i \in 0..Len(s) :
    /\ i + Len(pattern) <= Len(s)
    /\ \A k \in 1..Len(pattern) : AtomMatches(pattern[k], s[i + k])

\* Step 3, regex branch: the patterns that compile, in order; the others are skipped.
CompilePatterns(terms) == SelectSeq(terms, CompileOk)

\* Step 3, literal branch: [term.lower() for term in ...].
LowerAll(terms) == [i \in 1..Len(terms) |-> LowerStr(terms[i])]

(***************************************************************************)
(* The body of `for line in f`.  matched_term is modelled as a sequence:   *)
(* << >> is None, << t >> is the string t.                                 *)
(***************************************************************************)
RECURSIVE SearchPatterns(_, _, _)
\* for pattern in compiled_patterns: if pattern.search(line): ... break
SearchPatterns(patterns, l, i) ==
  IF i > Len(patterns) THEN << >>
  ELSE IF PatternSearch(patterns[i], l) THEN << patterns[i] >>
  ELSE SearchPatterns(patterns, l, i + 1)

RECURSIVE SearchTermsNoBreak(_, _, _)
\* The literal search loop without its `break`: the last containing term wins.
SearchTermsNoBreak(terms, line_lower, i) ==
  IF i > Len(terms) THEN << >>
  ELSE LET rest == SearchTermsNoBreak(terms, line_lower, i + 1)
       IN IF rest # << >> THEN rest
          ELSE IF Contains(terms[i], line_lower) THEN << terms[i] >> ELSE << >>

RECURSIVE SearchTerms(_, _, _)
\* for term in search_terms: if term in line_lower: ... break
SearchTerms(terms, line_lower, i) ==
  IF i > Len(terms) THEN << >>
  ELSE IF Contains(terms[i], line_lower) THEN << terms[i] >>
  ELSE SearchTerms(terms, line_lower, i + 1)

\* matched_term after the two search loops.
MatchedTerm(is_regex, patterns, terms, l) ==
  IF is_regex THEN SearchPatterns(patterns, l, 1)
  ELSE SearchTerms(terms, LowerStr(l), 1)

\* `if matched_term:` -- Python truth of None or a string.
Truthy(m) == m # << >> /\ m[1] # << >>

\* line_to_check = line if is_regex else line_lower
LineToCheck(is_regex, l) == IF is_regex THEN l ELSE LowerStr(l)

\* any(ignore in line_to_check for ignore in ignore_terms)
AnyIgnore(ignores, line_to_check) ==
  \E i \in 1..Len(ignores) : Contains(ignores[i], line_to_check)

\* The record of out_file.write(f"[{file_path}] [Matched: '{matched_term}'] {line}"),
\* kept as its three fields.
Record(file_path, m, l) == [file_path |-> file_path, matched_term |-> m[1], line |-> l]

(***************************************************************************)
(* The file tree under '.', as os.walk yields it: (dirpath, filenames).    *)
(***************************************************************************)
Walk ==
  << [dirpath |-> << "." >>,
      filenames |-> << << "a",".","l","o","g" >>, << "a","p","p",".","t","x","t" >> >>],
     [dirpath |-> << ".","/" >> \o OUTPUT_DIR_NAME,
      filenames |-> << << "o","l","d",".","l","o","g" >> >>],
     [dirpath |-> << ".","/" >> \o OUTPUT_DIR_NAME \o << "/","d" >>,
      filenames |-> << << "x",".","j","s","o","n" >> >>],
     [dirpath |-> << ".","/","s","u","b" >>,
      filenames |-> << << "b",".","j","s","o","n" >> >>] >>

\* pathlib.Path(dirpath) / filename, which drops a leading "./".
JoinPath(dirpath, filename) ==
  IF dirpath = << "." >> THEN filename
  ELSE SubSeq(dirpath, 3, Len(dirpath)) \o << "/" >> \o filename

\* The walk without the results-directory test.
SkipsDirNever(dirpath) == FALSE

\* `if OUTPUT_DIR_NAME in dirpath: continue`
SkipsDir(dirpath) == Contains(OUTPUT_DIR_NAME, dirpath)

\* filename.endswith((".log", ".json"))
HasExtension(filename) == \E e \in Extensions : EndsWith(filename, e)

(***************************************************************************)
(* The catalogue and the menu's inputs.  The nine entries of ANALYSES have *)
(* two shapes, kept here over the model alphabet: a literal analysis with  *)
(* an ignore list (entry "1") and a regex analysis without one (entry      *)
(* "2"); entries "3" to "9" are literal analyses like "1" without ignore   *)
(* terms, which is also the shape of a custom search.                      *)
(***************************************************************************)
AnalysisKeys == << "1", "2" >>

ANALYSES ==
  [k \in {"1", "2"} |->
     IF k = "1"
     THEN [search_terms |-> << << "a" >>, << "b" >> >>,
           ignore_terms |-> << << "b","a" >> >>,
           output_filename |-> "general_errors.txt",
           is_regex |-> FALSE]
     ELSE [search_terms |-> << << "a","." >> >>,
           ignore_terms |-> << >>,        \* .get("ignore_terms") is None: line 132
           output_filename |-> "http_error_codes.txt",
           is_regex |-> TRUE]]

OutputFiles == {"general_errors.txt", "http_error_codes.txt", "custom_search_results.txt"}

NoArgs == [search_terms |-> << >>, ignore_terms |-> << >>,
           output_filename |-> "", is_regex |-> FALSE]

RECURSIVE LStrip(_)
LStrip(s) == IF s # << >> /\ Head(s) = " " THEN LStrip(Tail(s)) ELSE s

RECURSIVE RStrip(_)
RStrip(s) == IF s # << >> /\ s[Len(s)] = " " THEN RStrip(SubSeq(s, 1, Len(s) - 1)) ELSE s

\* str.strip()
Strip(s) == RStrip(LStrip(s))

NonEmpty(s) == s # << >>

\* [term.strip() for term in choice.split(',') if term.strip()], on the fields
\* choice.split(',') gives.
CustomTerms(fields) == SelectSeq([i \in 1..Len(fields) |-> Strip(fields[i])], NonEmpty)

\* Inputs that are no menu option, as their comma-separated fields:
\* "ab", "B, a" and ",".
CustomChoices ==
  { << << "a","b" >> >>, << << "B" >>, << " ","a" >> >>, << << >>, << >> >> }

\* The arguments of the custom search's call: literal mode, no ignore terms.
CustomArgs(terms) ==
  [search_terms |-> terms, ignore_terms |-> << >>,
   output_filename |-> "custom_search_results.txt", is_regex |-> FALSE]

\* Lines a source file of the menu-driven model may hold.
SampleLines == { << "A","b",NL >>, << "b","a",NL >> }

\* A record left in a result file by an earlier invocation of the program.
StaleRecord ==
  [file_path |-> << "z",".","l","o","g" >>, matched_term |-> << "b" >>,
   line |-> << "b",NL >>]

Absent == [exists |-> FALSE, recs |-> << >>]

(***************************************************************************)
(* main                                                                    *)
(***************************************************************************)
Init ==
  /\ pc = "menu"
  /\ choices = 0
  /\ queue = << >>
  /\ args = NoArgs
  /\ search_terms = << >> /\ ignore_terms = << >> /\ compiled_patterns = << >>
  /\ found_matches = 0
  /\ dir_exists \in BOOLEAN
  /\ dest \in { [f \in OutputFiles |-> Absent],
               [f \in OutputFiles |-> [exists |-> TRUE, recs |-> << StaleRecord >>]] }
  /\ (~dir_exists => \A f \in OutputFiles : dest[f] = Absent)
  /\ out_open = FALSE
  /\ walk_i = 1 /\ file_j = 1 /\ lines_read = 0 /\ line = << >>
  /\ written = << >> /\ opened = {} /\ event = "none" /\ dest_failed = FALSE

runVars == << args, search_terms, ignore_terms, compiled_patterns, found_matches,
              out_open, walk_i, file_j, lines_read, line, written, opened, dest_failed >>
fsVars == << dir_exists, dest >>

\* choice = input(...).strip() is empty: "No selection made", continue.
ChooseNothing ==
  /\ pc = "menu" /\ choices < MaxChoices
  /\ choices' = choices + 1
  /\ event' = "no_selection"
  /\ UNCHANGED << pc, queue, runVars, fsVars >>

\* choice_lower == 'q': break
ChooseQuit ==
  /\ pc = "menu" /\ choices < MaxChoices
  /\ choices' = choices + 1
  /\ pc' = "exited"
  /\ event' = "goodbye"
  /\ UNCHANGED << queue, runVars, fsVars >>

\* choice_lower == 'a': for analysis_config in ANALYSES.values(): run_analysis(...)
ChooseAll ==
  /\ pc = "menu" /\ choices < MaxChoices
  /\ choices' = choices + 1
  /\ queue' = [i \in 1..Len(AnalysisKeys) |-> ANALYSES[AnalysisKeys[i]]]
  /\ pc' = "dispatch"
  /\ event' = "none"
  /\ UNCHANGED << runVars, fsVars >>

\* choice in ANALYSES: one pre-canned analysis
ChooseAnalysis ==
  /\ pc = "menu" /\ choices < MaxChoices
  /\ \E k \in DOMAIN ANALYSES : queue' = << ANALYSES[k] >>
  /\ choices' = choices + 1
  /\ pc' = "dispatch"
  /\ event' = "none"
  /\ UNCHANGED << runVars, fsVars >>

\* else: a custom search, or "No valid custom search terms were entered."
ChooseCustom ==
  /\ pc = "menu" /\ choices < MaxChoices
  /\ \E c \in CustomChoices :
       LET custom_terms == CustomTerms(c)
       IN IF custom_terms # << >>
          THEN queue' = << CustomArgs(custom_terms) >> /\ event' = "none"
          ELSE queue' = << >> /\ event' = "no_valid_terms"
  /\ choices' = choices + 1
  /\ pc' = "dispatch"
  /\ UNCHANGED << runVars, fsVars >>

\* The next run_analysis call of the current choice: its locals are fresh.
CallRun ==
  /\ pc = "dispatch" /\ queue # << >>
  /\ args' = Head(queue)
  /\ queue' = Tail(queue)
  /\ search_terms' = Head(queue).search_terms
  /\ ignore_terms' = Head(queue).ignore_terms
  /\ compiled_patterns' = << >>
  /\ found_matches' = 0
  /\ out_open' = FALSE
  /\ walk_i' = 1 /\ file_j' = 1 /\ lines_read' = 0 /\ line' = << >>
  /\ written' = << >> /\ opened' = {} /\ dest_failed' = FALSE
  /\ event' = "none"
  /\ pc' = "mkdir"
  /\ UNCHANGED << choices, fsVars >>

\* input("Press Enter to return to the main menu..."); the locals of the
\* calls that returned are gone.
Pause ==
  /\ pc = "dispatch" /\ queue = << >>
  /\ pc' = "menu"
  /\ args' = NoArgs
  /\ search_terms' = << >> /\ ignore_terms' = << >> /\ compiled_patterns' = << >>
  /\ found_matches' = 0
  /\ out_open' = FALSE
  /\ walk_i' = 1 /\ file_j' = 1 /\ lines_read' = 0 /\ line' = << >>
  /\ written' = << >> /\ opened' = {} /\ dest_failed' = FALSE
  /\ event' = "none"
  /\ UNCHANGED << choices, queue, fsVars >>

(***************************************************************************)
(* run_analysis                                                            *)
(***************************************************************************)
\* Step 1: output_path.mkdir(exist_ok=True) succeeds.
Mkdir ==
  /\ pc = "mkdir"
  /\ dir_exists' = TRUE
  /\ pc' = "clear"
  /\ UNCHANGED << choices, queue, runVars, dest, event >>

\* Step 1: mkdir raises OSError: reported, return.
MkdirFails ==
  /\ pc = "mkdir"
  /\ event' = "mkdir_error"
  /\ pc' = "dispatch"
  /\ UNCHANGED << choices, queue, runVars, fsVars >>

\* Step 2 left out: the old result file is kept.
ClearOldKeeps ==
  /\ pc = "clear"
  /\ pc' = "compile"
  /\ UNCHANGED << choices, queue, runVars, fsVars, event >>

\* Step 2: if output_file_path.exists(): output_file_path.unlink()
ClearOld ==
  /\ pc = "clear"
  /\ dest' = [dest EXCEPT ![args.output_filename] = Absent]
  /\ pc' = "compile"
  /\ UNCHANGED << choices, queue, runVars, dir_exists, event >>

\* Step 2: unlink raises OSError.  Nothing in run_analysis or main catches it.
ClearOldFails ==
  /\ pc = "clear"
  /\ dest[args.output_filename].exists
  /\ event' = "uncaught_oserror"
  /\ pc' = "crashed"
  /\ UNCHANGED << choices, queue, runVars, fsVars >>

\* Step 3: the three locals after pattern pre-processing.  In regex mode the
\* terms and the ignore terms stay as given; in literal mode both are lower-cased
\* and nothing is compiled.
CompiledOf(a) == IF a.is_regex THEN CompilePatterns(a.search_terms) ELSE << >>
TermsOf(a) == IF a.is_regex THEN a.search_terms ELSE LowerAll(a.search_terms)
IgnoresOf(a) == IF a.is_regex THEN a.ignore_terms ELSE LowerAll(a.ignore_terms)

Compile ==
  /\ pc = "compile"
  /\ compiled_patterns' = CompiledOf(args)
  /\ search_terms' = TermsOf(args)
  /\ ignore_terms' = IgnoresOf(args)
  /\ event' = IF args.is_regex /\ Len(CompiledOf(args)) < Len(args.search_terms)
              THEN "invalid_regex_warning" ELSE event
  /\ pc' = "open"
  /\ UNCHANGED << choices, queue, args, found_matches, out_open, walk_i, file_j,
                  lines_read, line, written, opened, dest_failed, fsVars >>

\* Step 4: open(output_file_path, "a") succeeds; the file exists from now on.
OpenDest ==
  /\ pc = "open"
  /\ dest' = [dest EXCEPT ![args.output_filename].exists = TRUE]
  /\ out_open' = TRUE
  /\ pc' = "walk"
  /\ UNCHANGED << choices, queue, args, search_terms, ignore_terms, compiled_patterns,
                  found_matches, walk_i, file_j, lines_read, line, written, opened,
                  dest_failed, dir_exists, event >>

\* Step 4: open raises IOError: caught at line 209, reported; on to the summary.
OpenDestFails ==
  /\ pc = "open"
  /\ dest_failed' = TRUE
  /\ event' = "dest_error"
  /\ pc' = "summary"
  /\ UNCHANGED << choices, queue, args, search_terms, ignore_terms, compiled_patterns,
                  found_matches, out_open, walk_i, file_j, lines_read, line, written,
                  opened, fsVars >>

CurDir == Walk[walk_i]
CurName == CurDir.filenames[file_j]
CurPath == JoinPath(CurDir.dirpath, CurName)

walkUnchanged == << choices, queue, args, search_terms, ignore_terms, compiled_patterns,
                    found_matches, out_open, written, dest_failed, fsVars >>

\* `if OUTPUT_DIR_NAME in dirpath: continue`
SkipDir ==
  /\ pc = "walk" /\ walk_i <= Len(Walk)
  /\ SkipsDir(CurDir.dirpath)
  /\ walk_i' = walk_i + 1 /\ file_j' = 1
  /\ UNCHANGED << pc, lines_read, line, opened, event, walkUnchanged >>

\* The filenames of a directory are exhausted: the next (dirpath, filenames).
NextDir ==
  /\ pc = "walk" /\ walk_i <= Len(Walk)
  /\ ~SkipsDir(CurDir.dirpath)
  /\ file_j > Len(CurDir.filenames)
  /\ walk_i' = walk_i + 1 /\ file_j' = 1
  /\ UNCHANGED << pc, lines_read, line, opened, event, walkUnchanged >>

\* A filename without one of the extensions is passed over.
SkipFile ==
  /\ pc = "walk" /\ walk_i <= Len(Walk)
  /\ ~SkipsDir(CurDir.dirpath)
  /\ file_j <= Len(CurDir.filenames)
  /\ ~HasExtension(CurName)
  /\ file_j' = file_j + 1
  /\ UNCHANGED << pc, walk_i, lines_read, line, opened, event, walkUnchanged >>

\* open(file_path, 'r', ...) succeeds.
OpenSource ==
  /\ pc = "walk" /\ walk_i <= Len(Walk)
  /\ ~SkipsDir(CurDir.dirpath)
  /\ file_j <= Len(CurDir.filenames)
  /\ HasExtension(CurName)
  /\ opened' = opened \cup {CurPath}
  /\ lines_read' = 0
  /\ pc' = "read"
  /\ UNCHANGED << walk_i, file_j, line, event, walkUnchanged >>

\* open(file_path, 'r', ...) raises: caught at line 207, reported; the next file.
OpenSourceFails ==
  /\ pc = "walk" /\ walk_i <= Len(Walk)
  /\ ~SkipsDir(CurDir.dirpath)
  /\ file_j <= Len(CurDir.filenames)
  /\ HasExtension(CurName)
  /\ opened' = opened \cup {CurPath}
  /\ event' = "source_open_error"
  /\ file_j' = file_j + 1
  /\ UNCHANGED << pc, walk_i, lines_read, line, walkUnchanged >>

\* os.walk is exhausted: the `with` block closes out_file.
WalkDone ==
  /\ pc = "walk" /\ walk_i > Len(Walk)
  /\ out_open' = FALSE
  /\ pc' = "summary"
  /\ UNCHANGED << choices, queue, args, search_terms, ignore_terms, compiled_patterns,
                  found_matches, walk_i, file_j, lines_read, line, written, opened,
                  dest_failed, fsVars, event >>

\* One pass of `for line in f` on the line l: search, ignore check, and a write
\* that succeeds.
ScanLine(l) ==
  /\ pc = "read"
  /\ LET m == MatchedTerm(args.is_regex, compiled_patterns, search_terms, l)
         hit == Truthy(m) /\ ~AnyIgnore(ignore_terms, LineToCheck(args.is_regex, l))
     IN IF hit
        THEN /\ found_matches' = found_matches + 1
             /\ dest' = [dest EXCEPT ![args.output_filename].recs =
                                        Append(@, Record(CurPath, m, l))]
             /\ written' = Append(written, Record(CurPath, m, l))
        ELSE UNCHANGED << found_matches, dest, written >>
  /\ line' = l
  /\ lines_read' = lines_read + 1
  /\ UNCHANGED << pc, choices, queue, args, search_terms, ignore_terms,
                  compiled_patterns, dir_exists, out_open, walk_i, file_j, opened,
                  event, dest_failed >>

\* The same pass when out_file.write raises: found_matches is already counted
\* (line 204), the exception is caught by `except Exception` at line 207, the
\* source file is closed and the walk goes on with the next file.
ScanLineWriteFails(l) ==
  /\ pc = "read"
  /\ LET m == MatchedTerm(args.is_regex, compiled_patterns, search_terms, l)
     IN Truthy(m) /\ ~AnyIgnore(ignore_terms, LineToCheck(args.is_regex, l))
  /\ found_matches' = found_matches + 1
  /\ line' = l
  /\ lines_read' = lines_read + 1
  /\ dest_failed' = TRUE
  /\ event' = "file_error"
  /\ file_j' = file_j + 1
  /\ pc' = "walk"
  /\ UNCHANGED << choices, queue, args, search_terms, ignore_terms, compiled_patterns,
                  fsVars, out_open, walk_i, written, opened >>

ReadLine == \E l \in SampleLines : lines_read < MaxFileLines /\ ScanLine(l)

ReadLineWriteFails ==
  \E l \in SampleLines : lines_read < MaxFileLines /\ ScanLineWriteFails(l)

\* The source file is exhausted: it is closed; the next file.
SourceEOF ==
  /\ pc = "read"
  /\ file_j' = file_j + 1
  /\ pc' = "walk"
  /\ UNCHANGED << lines_read, line, opened, event, walk_i, walkUnchanged >>

\* A read failure handled by the outer handler instead: the walk is abandoned.
SourceReadAborts ==
  /\ pc = "read"
  /\ event' = "file_error"
  /\ out_open' = FALSE
  /\ pc' = "summary"
  /\ UNCHANGED << choices, queue, args, search_terms, ignore_terms, compiled_patterns,
                  found_matches, walk_i, file_j, lines_read, line, written, opened,
                  dest_failed, fsVars >>

\* Reading the source file raises: caught at line 207, reported; the next file.
SourceReadFails ==
  /\ pc = "read"
  /\ event' = "file_error"
  /\ file_j' = file_j + 1
  /\ pc' = "walk"
  /\ UNCHANGED << lines_read, line, opened, walk_i, walkUnchanged >>

\* Step 5: the summary is printed and run_analysis returns.
Summary ==
  /\ pc = "summary"
  /\ event' = IF found_matches > 0 THEN "found" ELSE "no_matches"
  /\ pc' = "dispatch"
  /\ UNCHANGED << choices, queue, runVars, fsVars >>

Next ==
  \/ ChooseNothing \/ ChooseQuit \/ ChooseAll \/ ChooseAnalysis \/ ChooseCustom
  \/ CallRun \/ Pause
  \/ Mkdir \/ MkdirFails \/ ClearOld \/ ClearOldFails \/ Compile
  \/ OpenDest \/ OpenDestFails
  \/ SkipDir \/ NextDir \/ SkipFile \/ OpenSource \/ OpenSourceFails \/ WalkDone
  \/ ReadLine \/ ReadLineWriteFails \/ SourceEOF \/ SourceReadFails
  \/ Summary

Spec == Init /\ [][Next]_vars

(***************************************************************************)
(* The line evaluation on its own: run_analysis called with any pattern    *)
(* specification of the bounded sets below, at the point where it has      *)
(* opened the first source file, reading one line.                         *)
(***************************************************************************)
SeqsUpTo(S, n) == UNION { [1..k -> S] : k \in 0..n }

TermPool == { << >>, << "a" >>, << "A" >>, << "b" >>, << "a","b" >>, << "." >>, << "(" >> }
IgnorePool == { << "A" >>, << "b" >>, << "b","a" >> }
LineChars == { "a", "A", "b" }

Lines == { body \o << NL >> : body \in SeqsUpTo(LineChars, MaxLineLen) }

PatternSpecs ==
  { [search_terms |-> t, ignore_terms |-> g,
     output_filename |-> "custom_search_results.txt", is_regex |-> r] :
      t \in SeqsUpTo(TermPool, MaxTerms), g \in SeqsUpTo(IgnorePool, MaxIgnores),
      r \in BOOLEAN }

LineInit ==
  /\ pc = "read"
  /\ choices = 1
  /\ queue = << >>
  /\ args \in PatternSpecs
  /\ search_terms = TermsOf(args)
  /\ ignore_terms = IgnoresOf(args)
  /\ compiled_patterns = CompiledOf(args)
  /\ found_matches = 0
  /\ dir_exists = TRUE
  /\ dest = [f \in OutputFiles |->
               IF f = args.output_filename THEN [exists |-> TRUE, recs |-> << >>]
               ELSE Absent]
  /\ out_open = TRUE
  /\ walk_i = 1 /\ file_j = 1 /\ lines_read = 0 /\ line = << >>
  /\ written = << >>
  /\ opened = { JoinPath(Walk[1].dirpath, Walk[1].filenames[1]) }
  /\ event = "none" /\ dest_failed = FALSE

EvalLine == \E l \in Lines : lines_read = 0 /\ ScanLine(l)

LineNext == EvalLine

LineSpec == LineInit /\ [][LineNext]_vars

(***************************************************************************)
(* Properties.  The predicates below are stated on the caller's arguments  *)
(* (args) and on the line, independently of the operators that model the   *)
(* search.                                                                 *)
(***************************************************************************)
\* t occurs in l when letter case is ignored.
ContainsIgnoringCase(t, l) ==
  \E off \in 0..Len(l) :
    /\ off + Len(t) <= Len(l)
    /\ \A k \in 1..Len(t) : Lower(t[k]) = Lower(l[off + k])

\* i is the earliest position of terms whose term occurs in l ignoring case.
EarliestContained(terms, l, i) ==
  /\ i \in 1..Len(terms)
  /\ ContainsIgnoringCase(terms[i], l)
  /\ \A j \in 1..(i - 1) : ~ContainsIgnoringCase(terms[j], l)

\* One line has been evaluated since the source file was opened.
OneLineDone == pc = "read" /\ lines_read = 1

PathALog == << "a",".","l","o","g" >>
PathBJson == << "s","u","b","/","b",".","j","s","o","n" >>
PathOldLog == OUTPUT_DIR_NAME \o << "/","o","l","d",".","l","o","g" >>
PathAppTxt == << "a","p","p",".","t","x","t" >>
PathDeepJson == OUTPUT_DIR_NAME \o << "/","d","/","x",".","j","s","o","n" >>

\* C1: in literal mode a line yields at most one record, and the term a record
\* reports is, letter case aside, the earliest term of the caller's list that the
\* line contains ignoring case.
C1_FirstMatchWins ==
  (OneLineDone /\ ~args.is_regex) =>
     /\ Len(written) <= 1
     /\ found_matches = Len(written)
     /\ written # << >> =>
          /\ written[1].line = line
          /\ \E i \in 1..Len(args.search_terms) :
               /\ EarliestContained(args.search_terms, line, i)
               /\ LowerStr(written[1].matched_term) = LowerStr(args.search_terms[i])

\* Witness of C1: terms ["b", "a"], the line "Ab": both occur, "b" is reported.
C1_Witness ==
  /\ OneLineDone /\ ~args.is_regex
  /\ args.search_terms = << << "b" >>, << "a" >> >>
  /\ line = << "A","b",NL >>
  /\ Len(written) = 1
  /\ written[1].matched_term = << "b" >>

\* C2: in literal mode the term a record reports is the winning term exactly as
\* the caller supplied it, upper-case letters included.
C2_OriginalForm ==
  (OneLineDone /\ ~args.is_regex /\ written # << >>) =>
     \E i \in 1..Len(args.search_terms) :
       /\ EarliestContained(args.search_terms, line, i)
       /\ written[1].matched_term = args.search_terms[i]

\* The line matches some term: in literal mode a term occurs in it ignoring case,
\* in regex mode the search of a pattern that compiles succeeds.
LineMatchesSomeTerm ==
  \E i \in 1..Len(args.search_terms) :
    IF args.is_regex
    THEN CompileOk(args.search_terms[i]) /\ PatternSearch(args.search_terms[i], line)
    ELSE ContainsIgnoringCase(args.search_terms[i], line)

\* An ignore term occurs in the text form used for matching: lower-cased against
\* the lower-cased line in literal mode, as given against the raw line in regex mode.
LineHoldsIgnoreTerm ==
  \E i \in 1..Len(args.ignore_terms) :
    IF args.is_regex
    THEN Contains(args.ignore_terms[i], line)
    ELSE Contains(LowerStr(args.ignore_terms[i]), LowerStr(line))

\* C3: a line that matches a term yields no record and no count when it holds an
\* ignore term, and exactly one record otherwise.
C3_IgnoreSuppression ==
  (OneLineDone /\ LineMatchesSomeTerm) =>
     IF LineHoldsIgnoreTerm
     THEN written = << >> /\ found_matches = 0
     ELSE Len(written) = 1 /\ found_matches = 1

\* C4: in regex mode without ignore terms a line is written exactly when the
\* search of some pattern that compiles succeeds in it, whatever the pattern list.
C4_RegexMatchIff ==
  (OneLineDone /\ args.is_regex /\ args.ignore_terms = << >>) =>
     (Len(written) = 1 <=> LineMatchesSomeTerm)

\* The run has printed its summary and returned to main.
RunCompleted == pc = "dispatch" /\ event \in {"found", "no_matches"}

\* C5: the count a completed run reports is the number of records it wrote.
C5_CountIsWritten ==
  RunCompleted => found_matches = Len(written)

\* The run is past step 2 (the removal of the old result file).
PastClearing == pc \in {"compile", "open", "walk", "read", "summary"} \/ RunCompleted

\* C6: once a run is past the removal of the old result file, the destination
\* file holds exactly the records this run has written, whatever it held before.
C6_ReplacesOutput ==
  PastClearing => dest[args.output_filename].recs = written

\* Witness of C6: result files of an earlier invocation exist, and the run's own
\* destination holds its one record and nothing else.
C6_Witness ==
  /\ pc = "summary"
  /\ args.output_filename = "custom_search_results.txt"
  /\ dest["general_errors.txt"].recs = << StaleRecord >>
  /\ Len(written) = 1
  /\ dest["custom_search_results.txt"].recs = written

\* C7: every source path a run tries to open ends in .log or .json and lies in a
\* directory whose path does not hold the output-directory name; the .log and
\* .json files in the results directory, at either depth, and app.txt are never
\* opened.
C7_OnlyEligibleOpened ==
  /\ opened \subseteq {PathALog, PathBJson}
  /\ PathOldLog \notin opened
  /\ PathDeepJson \notin opened
  /\ PathAppTxt \notin opened

\* Witness of C7: the walk is over, it passed the results directory, its
\* subdirectory and app.txt, and opened the two eligible files.
C7_Witness ==
  pc = "summary" /\ walk_i > Len(Walk) /\ opened = {PathALog, PathBJson}

\* C8: after a destination failure in a run, that run opens no further source
\* file and writes no further record.
C8_DestFailureAborts ==
  [][(dest_failed /\ dest_failed') => (opened' = opened /\ written' = written)]_vars

\* C9: no exception leaves run_analysis: control is never lost by main.
C9_NoExceptionEscapes == pc # "crashed"

\* C10: a source file that cannot be opened or read is skipped: the step keeps the
\* destination handle open, the count and the records, and moves to the next file;
\* and a walk that ends has tried to open every eligible file.
C10_ReadFailureRecoverable ==
  /\ []((pc = "summary" /\ walk_i > Len(Walk)) => opened = {PathALog, PathBJson})
  /\ [][(OpenSourceFails \/ SourceReadFails) =>
          /\ pc' = "walk" /\ out_open'
          /\ walk_i' = walk_i /\ file_j' = file_j + 1
          /\ found_matches' = found_matches
          /\ written' = written /\ dest' = dest]_vars

\* Witness of C10: a.log could not be opened, and the walk went on to sub/b.json
\* and wrote a record from it.
C10_Witness ==
  /\ pc = "summary"
  /\ event = "source_open_error"
  /\ Len(written) = 1 /\ found_matches = 1
  /\ written[1].file_path = PathBJson
  /\ opened = {PathALog, PathBJson}

====
